---- MODULE Spec2Model ----
(***************************************************************************)
(* The chunked transfer engine of MP4Download: range probing, size         *)
(* discovery, chunk planning, concurrent chunk retrieval with retry,       *)
(* progress counting and the ordered merge.  Three near-identical engines  *)
(* live in the repository; `variant` selects which one a behaviour runs:   *)
(*   "enhanced"  src/enhanced_chunk_downloader.py  EnhancedChunkDownloader *)
(*   "basic"     src/chunk_downloader.py           ChunkDownloader         *)
(*   "demo"      src/chunk_download_demo.py        ChunkDownloadDemo       *)
(* Bytes are modelled as naturals: byte k (1-based) of the resource has    *)
(* the value k, so a file is a sequence of naturals and a reordering, a    *)
(* gap or a duplicate in the merged output is visible.                     *)
(***************************************************************************)
EXTENDS Integers, Sequences, FiniteSets, TLC

VARIABLES
    variant,          \* which engine runs
    output_before,    \* what the output path held when the transfer was started
    config,           \* max_threads, chunk_size, small_file_threshold, max_retries
    res_len,          \* true length of the resource on the server
    server,           \* the answers the server gives to the probes, when fixed in advance
    supports_ranges,  \* what test_range_support returned: "unknown" before the call
    probed_size,      \* what get_accurate_file_size returned: -1 before the call
    phase,            \* position of download_video / download_file
    file_size,        \* local file_size of download_video
    total_size,       \* self.total_size
    optimal_chunks,   \* optimal_chunks / num_chunks
    chunk_size,       \* local chunk_size = file_size // optimal_chunks
    futures,          \* the submitted download_chunk calls, in submission order
    chunk_files,      \* temp_dir/chunk_NNNN.tmp : chunk id -> bytes (existing files only)
    temp_dir,         \* whether the temporary directory exists
    output_file,      \* [exists, data] of the output path
    total_downloaded, \* self.total_downloaded
    progress_lock,    \* self.progress_lock: 0 = free, k = held by the k-th call
    increments,       \* sum of the len(data) added to total_downloaded since its reset
    pool_width,       \* max_workers of the ThreadPoolExecutor: 0 before it is made
    start_time,       \* self.start_time: "none", "stale" (an earlier transfer's) or "fresh"
    merge_copied,     \* merge_chunks has appended artifact merge_i and not yet removed it
    failed_chunks,    \* failed_chunks list of the collecting loop
    collected,        \* indexes of futures whose result the loop has consumed
    merge_i,          \* loop variable i of merge_chunks
    merge_calls,      \* number of calls of merge_chunks
    fallback_calls,   \* number of calls of fallback_download
    result,           \* return value of download_video: "none", "true", "false", "raised"
    progress_config,  \* PROGRESS_CONFIG: verbose
    display,          \* what the last call of update_progress computed and printed
    now,              \* int(time.time()): the clock in whole seconds
    transfers,        \* the download_video calls that share an output directory
    disk              \* the temporary directories in it: name -> chunk id -> writer

vars == << variant, output_before, config, res_len, server, supports_ranges, probed_size, phase, file_size, total_size,
           optimal_chunks, chunk_size, futures, chunk_files, temp_dir,
           output_file, total_downloaded, progress_lock, increments,
           pool_width, start_time, merge_copied,
           failed_chunks, collected, merge_i, merge_calls, fallback_calls,
           result, progress_config, display, now, transfers, disk >>

\* the state one transfer of one verbose instance never touches: the
\* progress settings and display, the clock and the other transfers
aside == << progress_config, display, now, transfers, disk >>

\* no call of update_progress yet
NoStatus == [called |-> FALSE]

\* one instance, verbose as in PROGRESS_CONFIG, alone in its output directory
AsideInit ==
    /\ progress_config = [verbose |-> TRUE]
    /\ display = NoStatus
    /\ now = 0
    /\ transfers = << >>
    /\ disk = << >>

----------------------------------------------------------------------------
(* Bounds of the model *)

MaxPlanSize == 34
MaxPlanThreads == 17
MaxPlanChunkSize == 3
MaxPlanThreshold == 5
MaxFileSize == 3
MaxThreads == 2
MaxChunkSize == 1
SmallThreshold == 4
MaxRetries == 1
MaxThreadsAndRetries == 3
MaxWorkerSize == 3
TolerantSize == 20
MaxWorkerRetries == 5
MaxProbeSize == 2
MaxProgressWorkers == 2
MaxProgressSize == 3
MaxProgressRetries == 1
MaxReuseSize == 2
MaxRateTotal == 2
MaxRateDownloaded == 3
MaxElapsed == 2
MaxNow == 1
PairChunks == 2
EarlierSize == 5

(* Program constants *)

HardCapChunks == 16
BasicSmallFileThreshold == 10485760
BasicMaxRetries == 3
BackoffCeiling == 10

Variants == {"enhanced", "basic", "demo"}

----------------------------------------------------------------------------
(* Helpers *)

Min2(a, b) == IF a <= b THEN a ELSE b

Max2(a, b) == IF a >= b THEN a ELSE b

\* Python's a // b for b # 0 (floor division, also for a negative divisor)
PyFloorDiv(a, b) == IF b > 0 THEN a \div b ELSE (0 - a) \div (0 - b)

EmptyFiles == [k \in {} |-> << >>]

NoOutput == [exists |-> FALSE, data |-> << >>]

----------------------------------------------------------------------------
(* ChunkPlanner *)

\* calculate_optimal_chunks without its small-file rule
EnhancedOptimalChunks_NoSmallFileRule(fs, cfg) ==
    Min2(Min2(cfg.max_threads, Max2(1, fs \div cfg.chunk_size)), HardCapChunks)

\* EnhancedChunkDownloader.calculate_optimal_chunks
EnhancedOptimalChunks(fs, cfg) ==
    IF fs < cfg.small_file_threshold
    THEN 1
    ELSE Min2(Min2(cfg.max_threads, Max2(1, fs \div cfg.chunk_size)), HardCapChunks)

\* ChunkDownloader.download_video: min(...) first, then the 10MB override
BasicOptimalChunks(fs, cfg) ==
    IF fs < BasicSmallFileThreshold
    THEN 1
    ELSE Min2(cfg.max_threads, Max2(1, fs \div cfg.chunk_size))

\* ChunkDownloadDemo.download_file: no small-file rule, no cap
DemoNumChunks(fs, cfg) ==
    Min2(cfg.max_threads, Max2(1, fs \div cfg.chunk_size))

calculate_optimal_chunks(v, fs, cfg) ==
    IF v = "enhanced" THEN EnhancedOptimalChunks(fs, cfg)
    ELSE IF v = "basic" THEN BasicOptimalChunks(fs, cfg)
    ELSE DemoNumChunks(fs, cfg)

\* start of chunk i (0-based) in the range loop
ChunkStart(i, cs) == i * cs

\* the range loop without `if i == optimal_chunks - 1: end = file_size - 1`
ChunkEnd_NoLastChunkRule(i, cs, n, fs) == ChunkStart(i, cs) + cs - 1

\* end of chunk i in the range loop: the last chunk is forced to file_size - 1
ChunkEnd(i, cs, n, fs) ==
    IF i = n - 1 THEN fs - 1 ELSE ChunkStart(i, cs) + cs - 1

\* the call download_chunk(url, start, end, i, temp_dir) as submitted
NewCall(i, cs, n, fs) ==
    [ chunk_id    |-> i,
      start       |-> ChunkStart(i, cs),
      end         |-> ChunkEnd(i, cs, n, fs),
      retry_count |-> 0,
      pc          |-> "start",
      downloaded  |-> 0,
      attempts    |-> 0,
      wait_time   |-> 0,
      waits       |-> << >>,
      pending     |-> 0,
      seen        |-> 0,
      req         |-> << >>,
      error       |-> "none" ]

\* an executor of one thread, whatever the plan
PoolWidth_OneThread(n) == 1

\* ThreadPoolExecutor(max_workers=optimal_chunks)
PoolWidth(n) == n

\* a transfer that keeps counting from where the last one stopped
ResetCounter_Keeps(old) == old

\* self.total_downloaded = 0
ResetCounter(old) == 0

(* The planning step of download_video: the chunk count, the base chunk    *)
(* size, the temporary directory, the progress reset and the executor.     *)
(* optimal_chunks = 0 raises ZeroDivisionError at file_size //             *)
(* optimal_chunks, before the directory is made; optimal_chunks < 0 raises *)
(* ValueError in ThreadPoolExecutor(max_workers=...), after it.            *)
PlanChunks ==
    /\ phase = "plan"
    /\ LET n == calculate_optimal_chunks(variant, file_size, config) IN
       /\ optimal_chunks' = n
       /\ IF n = 0
          THEN /\ phase' = "raised"
               /\ result' = "raised"
               /\ UNCHANGED << chunk_size, temp_dir, total_downloaded, increments,
                               pool_width, start_time >>
          ELSE /\ chunk_size' = PyFloorDiv(file_size, n)
               /\ temp_dir' = TRUE
               /\ start_time' = "fresh"
               /\ total_downloaded' = ResetCounter(total_downloaded)
               /\ increments' = 0
               /\ IF n < 0
                  THEN phase' = "raised" /\ result' = "raised" /\ UNCHANGED pool_width
                  ELSE /\ phase' = "submitting"
                       /\ pool_width' = PoolWidth(n)
                       /\ UNCHANGED result
    /\ UNCHANGED << variant, aside, output_before, config, res_len, server, progress_lock, merge_copied,
                    supports_ranges, probed_size, file_size, total_size,
                    futures, chunk_files, output_file, failed_chunks,
                    collected, merge_i, merge_calls, fallback_calls >>

\* one iteration of `for i in range(optimal_chunks)`: executor.submit
Submit ==
    /\ phase = "submitting"
    /\ LET i == Len(futures) IN
       /\ i < optimal_chunks
       /\ futures' = Append(futures, NewCall(i, chunk_size, optimal_chunks, file_size))
       /\ phase' = IF i + 1 = optimal_chunks THEN "collecting" ELSE "submitting"
    /\ UNCHANGED << variant, aside, output_before, config, res_len, server, progress_lock, pool_width, start_time, merge_copied,
                    supports_ranges, probed_size, file_size, total_size,
                    optimal_chunks, chunk_size, chunk_files, temp_dir,
                    output_file, total_downloaded, increments, failed_chunks, collected,
                    merge_i, merge_calls, fallback_calls, result >>

----------------------------------------------------------------------------
(* RangeProbe *)

\* the responses a probing request can get; raised = network error or timeout
ProbeStatuses == {200, 206, 301, 404, 416, 500}

ProbeResponses ==
    [ raised : {FALSE}, status : ProbeStatuses, accept_ranges : BOOLEAN ]
    \cup [ raised : {TRUE}, status : {0}, accept_ranges : {FALSE} ]

\* a probe that takes every status 200 as support
RangeSupported_Any200(resp) ==
    IF resp.raised THEN FALSE
    ELSE resp.status = 206 \/ resp.status = 200

\* test_range_support / test_url_support
RangeSupported(resp) ==
    IF resp.raised THEN FALSE
    ELSE IF resp.status = 206 THEN TRUE
    ELSE IF resp.status = 200 THEN resp.accept_ranges
    ELSE FALSE

\* what one size request yields: the header's value, no header, a header
\* int() cannot parse, or a network error
SizeAnswers == {"value", "absent", "unparsable", "raised"}

\* a server whose answers are not fixed: every probe may get any answer
Unscripted ==
    [ fixed    |-> FALSE,
      response |-> [raised |-> TRUE, status |-> 0, accept_ranges |-> FALSE],
      answers  |-> << "raised", "raised", "raised" >> ]

\* the servers whose answers to the range probe and to the three size
\* requests are fixed
Scripted ==
    [ fixed    : {TRUE},
      response : ProbeResponses,
      answers  : [1 .. 3 -> SizeAnswers] ]

\* the responses the range probe can get from the server
ResponsesOffered == IF server.fixed THEN {server.response} ELSE ProbeResponses

\* the answers size request i can get from the server
AnswersOffered(i) == IF server.fixed THEN {server.answers[i]} ELSE SizeAnswers

\* a size discovery with one try block per method: after an error it goes
\* on to the next method
AccurateFileSize_NextMethodAfterError(a1, a2, a3, size) ==
    IF a1 = "value" \/ a2 = "value" \/ a3 = "value" THEN size ELSE 0

\* a size discovery that asks the plain HEAD only
AccurateFileSize_HeadOnly(a1, a2, a3, size) == IF a1 = "value" THEN size ELSE 0

\* get_accurate_file_size / get_file_size of the two downloaders: content-length
\* of a HEAD, content-range of a ranged HEAD, content-range of a ranged GET
AccurateFileSize(a1, a2, a3, size) ==
    IF a1 = "value" THEN size
    ELSE IF a1 # "absent" THEN 0
    ELSE IF a2 = "value" THEN size
    ELSE IF a2 # "absent" THEN 0
    ELSE IF a3 = "value" THEN size
    ELSE 0

\* ChunkDownloadDemo.get_file_size: the HEAD's content-length only
DemoFileSize(a1, size) == IF a1 = "value" THEN size ELSE 0

get_file_size(v, a1, a2, a3, size) ==
    IF v = "demo" THEN DemoFileSize(a1, size) ELSE AccurateFileSize(a1, a2, a3, size)

\* video_info['filesize'] of the resolver: none (0) or the size
EstimatedSizes == {0, res_len}

\* the size download_video goes on with: the enhanced downloader falls back
\* on video_info['filesize'] when discovery gave 0
SizeUsed(v, discovered, est) ==
    IF discovered = 0 /\ v = "enhanced" THEN est ELSE discovered

\* every downloader gives up as the demo does, without a fallback
NoChunkingPhase_ReturnsFalse(v) == "failed"

\* download_video without its `if file_size == 0` / `if not test_range_support`
\* branches: it goes on to plan
NoChunkingPhase_GoesOnToPlan(v) == "plan"

\* where download_video goes when chunking is not possible: the two
\* downloaders run fallback_download, the demo returns False
NoChunkingPhase(v) == IF v = "demo" THEN "failed" ELSE "fallback"

NoChunkingResult(v) == IF v = "demo" THEN "false" ELSE "none"

TestRangeSupport ==
    /\ phase = "probe"
    /\ \E resp \in ResponsesOffered :
         IF RangeSupported(resp)
         THEN /\ supports_ranges' = "yes"
              /\ phase' = "size"
              /\ UNCHANGED result
         ELSE /\ supports_ranges' = "no"
              /\ phase' = NoChunkingPhase(variant)
              /\ result' = NoChunkingResult(variant)
    /\ UNCHANGED << variant, aside, output_before, config, res_len, server, progress_lock, pool_width, start_time, merge_copied,
                    probed_size, file_size, total_size,
                    optimal_chunks, chunk_size, futures, chunk_files, temp_dir,
                    output_file, total_downloaded, increments, failed_chunks, collected,
                    merge_i, merge_calls, fallback_calls >>

GetFileSize ==
    /\ phase = "size"
    /\ \E a1 \in AnswersOffered(1), a2 \in AnswersOffered(2),
          a3 \in AnswersOffered(3), est \in EstimatedSizes :
         LET discovered == get_file_size(variant, a1, a2, a3, res_len)
             used == SizeUsed(variant, discovered, est) IN
         /\ probed_size' = discovered
         /\ file_size' = used
         /\ IF used = 0
            THEN /\ phase' = NoChunkingPhase(variant)
                 /\ result' = NoChunkingResult(variant)
                 /\ UNCHANGED total_size
            ELSE /\ phase' = "plan"
                 /\ total_size' = used
                 /\ UNCHANGED result
    /\ UNCHANGED << variant, aside, output_before, config, res_len, server, progress_lock, pool_width, start_time, merge_copied,
                    supports_ranges, optimal_chunks,
                    chunk_size, futures, chunk_files, temp_dir, output_file,
                    total_downloaded, increments, failed_chunks, collected, merge_i,
                    merge_calls, fallback_calls >>

----------------------------------------------------------------------------
(* ChunkWorker: download_chunk.  futures[k] is the k-th submitted call; its *)
(* fields chunk_id, start, end, retry_count are the parameters of the       *)
(* current (innermost) invocation.                                          *)

IterContentSize == 8192

\* what str(e) can be: some text, or the empty text of an exception raised
\* without a message
ErrorTexts == {"err", ""}

\* the small-file threshold an engine applies
ThresholdOf(v, cfg) ==
    IF v = "enhanced" THEN cfg.small_file_threshold
    ELSE IF v = "basic" THEN BasicSmallFileThreshold
    ELSE 0

\* max_retries of download_chunk
MaxRetriesOf(v, cfg) ==
    IF v = "enhanced" THEN cfg.max_retries
    ELSE IF v = "basic" THEN BasicMaxRetries
    ELSE 0

RECURSIVE Pow2(_)
Pow2(n) == IF n <= 0 THEN 1 ELSE 2 * Pow2(n - 1)

\* a backoff that doubles without a ceiling
WaitTime_NoCeiling(v, retry_count) ==
    IF v = "enhanced" THEN Pow2(retry_count) ELSE 1

\* the sleep before a retry
WaitTime(v, retry_count) ==
    IF v = "enhanced" THEN Min2(Pow2(retry_count), BackoffCeiling) ELSE 1

\* a completeness test that accepts every stream that ended
ChunkIncomplete_NoTest(v, d, expected) == FALSE

\* the completeness test after the stream ended: TRUE = the exception is raised
\* (d < expected * 0.95, resp. 0.9; the demo does not test)
ChunkIncomplete(v, d, expected) ==
    IF v = "enhanced" THEN 100 * d < 95 * expected
    ELSE IF v = "basic" THEN 10 * d < 9 * expected
    ELSE FALSE

\* the bytes the server still has for the range of call w after `d` bytes
LastServed(w) == Min2(w.end, res_len - 1)

Available(w) == Max2(0, LastServed(w) - (w.start + w.downloaded) + 1)

\* the next b bytes of the resource for call w (byte at offset o has value o+1)
NextData(w, b) == [j \in 1 .. b |-> w.start + w.downloaded + j]

WriteFile(files, id, data) ==
    [k \in DOMAIN files \cup {id} |-> IF k = id THEN data ELSE files[k]]

\* an artifact opened in append mode: what an earlier attempt wrote stays
OpenForWriting_Appends(files, id) ==
    IF id \in DOMAIN files THEN files ELSE WriteFile(files, id, << >>)

\* open(chunk_file, 'wb'): the artifact is created or truncated
OpenForWriting(files, id) == WriteFile(files, id, << >>)

\* an os.remove that is never done
RemoveFile_Keeps(files, id) == files

RemoveFile(files, id) == [k \in DOMAIN files \ {id} |-> files[k]]

\* the except branch with `retry_count <= max_retries`
OnException_OneRetryMore(w, e) ==
    IF w.retry_count <= MaxRetriesOf(variant, config)
    THEN [w EXCEPT !.pc = "backoff",
                   !.wait_time = WaitTime(variant, w.retry_count),
                   !.waits = Append(w.waits, WaitTime(variant, w.retry_count))]
    ELSE [w EXCEPT !.pc = "returned", !.downloaded = 0, !.error = e]

\* the except branch of download_chunk, for the exception text e
OnException(w, e) ==
    IF w.retry_count < MaxRetriesOf(variant, config)
    THEN [w EXCEPT !.pc = "backoff",
                   !.wait_time = WaitTime(variant, w.retry_count),
                   !.waits = Append(w.waits, WaitTime(variant, w.retry_count))]
    ELSE [w EXCEPT !.pc = "returned", !.downloaded = 0, !.error = e]

\* a recursive call that resumes after the bytes already written
RetryCall_ResumesFromOffset(w) ==
    [w EXCEPT !.pc = "start", !.retry_count = w.retry_count + 1,
              !.start = w.start + w.downloaded,
              !.downloaded = 0, !.wait_time = 0]

\* the arguments of the recursive call download_chunk(url, start, end,
\* chunk_id, temp_dir, retry_count + 1)
RetryCall(w) ==
    [w EXCEPT !.pc = "start", !.retry_count = w.retry_count + 1,
              !.downloaded = 0, !.wait_time = 0]

Running == phase \in {"submitting", "collecting"}

\* what no step of download_chunk changes, the lock aside
ProgressFrame ==
    UNCHANGED << variant, aside, output_before, config, res_len, server, pool_width, start_time,
                 merge_copied, supports_ranges, probed_size, phase, file_size, total_size, optimal_chunks, chunk_size,
                 temp_dir, output_file, failed_chunks, collected, merge_i,
                 merge_calls, fallback_calls, result >>

WorkerFrame == ProgressFrame /\ UNCHANGED progress_lock

\* call k runs on a thread of the executor: from its first statement until
\* it returns
OnThread(k) == futures[k].attempts > 0 /\ futures[k].pc # "returned"

\* call k has a thread or gets one: the executor starts a submitted call
\* when fewer than max_workers calls are running
HasThread(k) ==
    \/ OnThread(k)
    \/ Cardinality({j \in DOMAIN futures : OnThread(j)}) < pool_width

\* session.get(url, headers, stream=True) and raise_for_status(); on success
\* open(chunk_file, 'wb') creates or truncates the artifact
Request(k) ==
    /\ Running
    /\ futures[k].pc = "start"
    /\ HasThread(k)
    /\ LET w == [futures[k] EXCEPT !.req = << futures[k].start, futures[k].end >>,
                                   !.attempts = futures[k].attempts + 1] IN
       \/ /\ futures' = [futures EXCEPT ![k] = [w EXCEPT !.pc = "stream", !.downloaded = 0]]
          /\ chunk_files' = OpenForWriting(chunk_files, w.chunk_id)
       \/ /\ \E e \in ErrorTexts : futures' = [futures EXCEPT ![k] = OnException(w, e)]
          /\ UNCHANGED chunk_files
    /\ UNCHANGED << total_downloaded, increments >>
    /\ WorkerFrame

\* one iteration of `for data in response.iter_content(8192)`: write the
\* block, count it, add it to the shared counter under progress_lock
StreamBlock(k) ==
    /\ Running
    /\ futures[k].pc = "stream"
    /\ LET w == futures[k] IN
       \E b \in 1 .. Min2(IterContentSize, Available(w)) :
          /\ chunk_files' = WriteFile(chunk_files, w.chunk_id,
                                      chunk_files[w.chunk_id] \o NextData(w, b))
          /\ futures' = [futures EXCEPT ![k] = [w EXCEPT !.downloaded = w.downloaded + b]]
          /\ total_downloaded' = total_downloaded + b
          /\ increments' = increments + b
    /\ WorkerFrame

(* The same loop body, statement by statement: the write, then           *)
(* `with self.progress_lock:` around `self.total_downloaded += len(data)`, *)
(* which reads the attribute, adds and stores it back.                     *)

\* a lock that every thread may take at any time
LockFree_NoLock == TRUE

\* progress_lock can be acquired
LockFree == progress_lock = 0

\* f.write(data); chunk_size_downloaded += len(data)
WriteBlock(k) ==
    /\ Running
    /\ futures[k].pc = "stream"
    /\ LET w == futures[k] IN
       \E b \in 1 .. Min2(IterContentSize, Available(w)) :
          /\ chunk_files' = WriteFile(chunk_files, w.chunk_id,
                                      chunk_files[w.chunk_id] \o NextData(w, b))
          /\ futures' = [futures EXCEPT ![k] = [w EXCEPT !.downloaded = w.downloaded + b,
                                                         !.pending = b,
                                                         !.pc = "lock"]]
    /\ UNCHANGED << total_downloaded, increments >>
    /\ WorkerFrame

\* the counter update without `with self.progress_lock:` around it
AcquireLock_NoWith(k) ==
    /\ Running
    /\ futures[k].pc = "lock"
    /\ futures' = [futures EXCEPT ![k].pc = "load"]
    /\ UNCHANGED << chunk_files, total_downloaded, increments >>
    /\ WorkerFrame

\* progress_lock.__enter__
AcquireLock(k) ==
    /\ Running
    /\ futures[k].pc = "lock"
    /\ LockFree
    /\ progress_lock' = k
    /\ futures' = [futures EXCEPT ![k].pc = "load"]
    /\ UNCHANGED << chunk_files, total_downloaded, increments >>
    /\ ProgressFrame

\* the read of self.total_downloaded
LoadCounter(k) ==
    /\ Running
    /\ futures[k].pc = "load"
    /\ futures' = [futures EXCEPT ![k].pc = "store", ![k].seen = total_downloaded]
    /\ UNCHANGED << chunk_files, total_downloaded, increments >>
    /\ WorkerFrame

\* the store of the sum into self.total_downloaded; `due` is the test of
\* update_interval against the clock
StoreCounter(k) ==
    /\ Running
    /\ futures[k].pc = "store"
    /\ total_downloaded' = futures[k].seen + futures[k].pending
    /\ increments' = increments + futures[k].pending
    /\ \E due \in BOOLEAN :
         futures' = [futures EXCEPT ![k].pc = IF due THEN "print" ELSE "unlock"]
    /\ UNCHANGED chunk_files
    /\ WorkerFrame

\* still inside the with block: update_progress() when update_interval has
\* passed since last_update_time, which prints the progress line
PrintProgress(k) ==
    /\ Running
    /\ futures[k].pc = "print"
    /\ futures' = [futures EXCEPT ![k].pc = "unlock"]
    /\ UNCHANGED << chunk_files, total_downloaded, increments >>
    /\ WorkerFrame

\* progress_lock.__exit__, and on to the next block
ReleaseLock(k) ==
    /\ Running
    /\ futures[k].pc = "unlock"
    /\ progress_lock' = 0
    /\ futures' = [futures EXCEPT ![k].pc = "stream", ![k].pending = 0, ![k].seen = 0]
    /\ UNCHANGED << chunk_files, total_downloaded, increments >>
    /\ ProgressFrame

\* the stream ends (all bytes sent, or the server closed early): the
\* completeness test, then the success return or the except branch
StreamEnd(k) ==
    /\ Running
    /\ futures[k].pc = "stream"
    /\ LET w == futures[k] IN
       IF ChunkIncomplete(variant, w.downloaded, w.end - w.start + 1)
       THEN futures' = [futures EXCEPT ![k] = OnException(w, "err")]
       ELSE futures' = [futures EXCEPT ![k] = [w EXCEPT !.pc = "returned", !.error = "None"]]
    /\ UNCHANGED << chunk_files, total_downloaded, increments >>
    /\ WorkerFrame

\* an I/O error or timeout while streaming
StreamError(k) ==
    /\ Running
    /\ futures[k].pc = "stream"
    /\ \E e \in ErrorTexts : futures' = [futures EXCEPT ![k] = OnException(futures[k], e)]
    /\ UNCHANGED << chunk_files, total_downloaded, increments >>
    /\ WorkerFrame

\* the sleep is over: the recursive call
Retry(k) ==
    /\ Running
    /\ futures[k].pc = "backoff"
    /\ futures' = [futures EXCEPT ![k] = RetryCall(futures[k])]
    /\ UNCHANGED << chunk_files, total_downloaded, increments >>
    /\ WorkerFrame

Worker(k) ==
    \/ Request(k)
    \/ StreamBlock(k)
    \/ StreamEnd(k)
    \/ StreamError(k)
    \/ Retry(k)

----------------------------------------------------------------------------
(* TransferOrchestrator: the collecting loop, the decision, the cleanup *)

\* Python's truth value of the error element of a result tuple
Truthy(error) == error # "None" /\ error # ""

\* failed_chunks after `if error: failed_chunks.append(chunk_id)`
RecordOutcome(failed, w) ==
    IF Truthy(w.error) THEN Append(failed, w.chunk_id) ELSE failed

\* a loop that is left at the first failed chunk
CollectingOver_FailFast(c, failed) == c = DOMAIN futures \/ failed # << >>

\* `for future in as_completed(futures)` is over: every future was consumed
CollectingOver(c, failed) == c = DOMAIN futures

\* one iteration of `for future in as_completed(futures)`
Collect(k) ==
    /\ phase = "collecting"
    /\ k \notin collected
    /\ futures[k].pc = "returned"
    /\ failed_chunks' = RecordOutcome(failed_chunks, futures[k])
    /\ collected' = collected \cup {k}
    /\ phase' = IF CollectingOver(collected', failed_chunks')
                THEN "collected" ELSE "collecting"
    /\ UNCHANGED << variant, aside, output_before, config, res_len, server, progress_lock, pool_width, start_time, merge_copied,
                    supports_ranges, probed_size, file_size, total_size,
                    optimal_chunks, chunk_size, futures, chunk_files, temp_dir,
                    output_file, total_downloaded, increments, merge_i, merge_calls,
                    fallback_calls, result >>

\* a failure path that returns False at once
CleansUp_Never(v) == FALSE

\* whether the failure path removes the temporary files: cleanup_failed_download
\* (auto_cleanup is True in FILE_CONFIG), the try block of ChunkDownloader;
\* ChunkDownloadDemo returns without cleaning
CleansUp(v) == v # "demo"

\* `if failed_chunks:` cleanup and return False; otherwise merge_chunks is
\* called and opens the output file for writing
\* a decision that opens the output file before it looks at failed_chunks
Decide_OpensOutputFirst ==
    /\ phase = "collected"
    /\ output_file' = [exists |-> TRUE, data |-> << >>]
    /\ IF failed_chunks # << >>
       THEN /\ phase' = "failed"
            /\ result' = "false"
            /\ chunk_files' = IF CleansUp(variant) THEN EmptyFiles ELSE chunk_files
            /\ temp_dir' = IF CleansUp(variant) THEN FALSE ELSE temp_dir
            /\ UNCHANGED << merge_i, merge_calls >>
       ELSE /\ phase' = "merging"
            /\ merge_calls' = merge_calls + 1
            /\ merge_i' = 0
            /\ UNCHANGED << result, chunk_files, temp_dir >>
    /\ UNCHANGED << variant, aside, output_before, config, res_len, server, progress_lock, pool_width, start_time, merge_copied,
                    supports_ranges, probed_size, file_size, total_size,
                    optimal_chunks, chunk_size, futures, total_downloaded, increments,
                    failed_chunks, collected, fallback_calls >>

\* after the executor block: `if failed_chunks:` cleans up and returns
\* False, otherwise merge_chunks opens the output file for writing
Decide ==
    /\ phase = "collected"
    /\ IF failed_chunks # << >>
       THEN /\ phase' = "failed"
            /\ result' = "false"
            /\ chunk_files' = IF CleansUp(variant) THEN EmptyFiles ELSE chunk_files
            /\ temp_dir' = IF CleansUp(variant) THEN FALSE ELSE temp_dir
            /\ UNCHANGED << output_file, merge_i, merge_calls >>
       ELSE /\ phase' = "merging"
            /\ merge_calls' = merge_calls + 1
            /\ merge_i' = 0
            /\ output_file' = [exists |-> TRUE, data |-> << >>]
            /\ UNCHANGED << result, chunk_files, temp_dir >>
    /\ UNCHANGED << variant, aside, output_before, config, res_len, server, progress_lock, pool_width, start_time, merge_copied,
                    supports_ranges, probed_size, file_size, total_size,
                    optimal_chunks, chunk_size, futures, total_downloaded, increments,
                    failed_chunks, collected, fallback_calls >>

----------------------------------------------------------------------------
(* Merger: merge_chunks *)

\* a loop body that puts the artifact in front of what was merged so far
MergeOne_Prepends(out, files, i) ==
    IF i \in DOMAIN files
    THEN [out EXCEPT !.data = files[i] \o out.data]
    ELSE out

\* the output after the loop body for chunk i: an existing artifact is
\* appended, a missing one only prints a warning
MergeOne(out, files, i) ==
    IF i \in DOMAIN files
    THEN [out EXCEPT !.data = out.data \o files[i]]
    ELSE out

\* one iteration of `for i in range(num_chunks)`: append, then os.remove
MergeStep ==
    /\ phase = "merging"
    /\ merge_i < optimal_chunks
    /\ ~ merge_copied
    /\ output_file' = MergeOne(output_file, chunk_files, merge_i)
    /\ chunk_files' = RemoveFile(chunk_files, merge_i)
    /\ merge_i' = merge_i + 1
    /\ UNCHANGED << variant, aside, output_before, config, res_len, server, progress_lock, pool_width, start_time, merge_copied,
                    supports_ranges, probed_size, phase, file_size,
                    total_size, optimal_chunks, chunk_size, futures, temp_dir,
                    total_downloaded, increments, failed_chunks, collected, merge_calls,
                    fallback_calls, result >>

(* The same loop body in two steps: the copy of the artifact into the     *)
(* output, then os.remove(chunk_file).                                     *)

\* the read loop over artifact merge_i, or the warning when it is missing
MergeCopy ==
    /\ phase = "merging"
    /\ merge_i < optimal_chunks
    /\ ~ merge_copied
    /\ output_file' = MergeOne(output_file, chunk_files, merge_i)
    /\ IF merge_i \in DOMAIN chunk_files
       THEN merge_copied' = TRUE /\ UNCHANGED merge_i
       ELSE merge_i' = merge_i + 1 /\ UNCHANGED merge_copied
    /\ UNCHANGED << variant, aside, output_before, config, res_len, server, progress_lock, pool_width,
                    start_time, supports_ranges, probed_size, phase, file_size,
                    total_size, optimal_chunks, chunk_size, futures, chunk_files,
                    temp_dir, total_downloaded, increments, failed_chunks,
                    collected, merge_calls, fallback_calls, result >>

\* os.remove(chunk_file), and on to the next index
MergeRemove ==
    /\ phase = "merging"
    /\ merge_copied
    /\ chunk_files' = RemoveFile(chunk_files, merge_i)
    /\ merge_i' = merge_i + 1
    /\ merge_copied' = FALSE
    /\ UNCHANGED << variant, aside, output_before, config, res_len, server, progress_lock, pool_width,
                    start_time, supports_ranges, probed_size, phase, file_size,
                    total_size, optimal_chunks, chunk_size, futures, temp_dir,
                    output_file, total_downloaded, increments, failed_chunks,
                    collected, merge_calls, fallback_calls, result >>

\* after the loop: the temporary directory is removed if it is empty,
\* merge_chunks returns True and download_video returns it
MergeFinish ==
    /\ phase = "merging"
    /\ merge_i = optimal_chunks
    /\ ~ merge_copied
    /\ temp_dir' = IF DOMAIN chunk_files = {} THEN FALSE ELSE temp_dir
    /\ phase' = "done"
    /\ result' = "true"
    /\ UNCHANGED << variant, aside, output_before, config, res_len, server, progress_lock, pool_width, start_time, merge_copied,
                    supports_ranges, probed_size, file_size, total_size,
                    optimal_chunks, chunk_size, futures, chunk_files,
                    output_file, total_downloaded, increments, failed_chunks, collected,
                    merge_i, merge_calls, fallback_calls >>

\* an I/O error while merging: `except Exception` returns False
MergeError ==
    /\ phase = "merging"
    /\ phase' = "failed"
    /\ result' = "false"
    /\ UNCHANGED << variant, aside, output_before, config, res_len, server, progress_lock, pool_width, start_time, merge_copied,
                    supports_ranges, probed_size, file_size, total_size,
                    optimal_chunks, chunk_size, futures, chunk_files, temp_dir,
                    output_file, total_downloaded, increments, failed_chunks, collected,
                    merge_i, merge_calls, fallback_calls >>

----------------------------------------------------------------------------
(* SingleStreamFallback: fallback_download *)

\* the first n bytes of the resource
Prefix(n) == [j \in 1 .. n |-> j]

\* one sequential GET: the request fails (the output is not opened), or n
\* bytes are written and the stream ends normally or with an error
FallbackDownload ==
    /\ phase = "fallback"
    /\ fallback_calls' = fallback_calls + 1
    /\ \/ /\ phase' = "failed"
          /\ result' = "false"
          /\ UNCHANGED output_file
       \/ \E n \in 0 .. res_len :
            /\ output_file' = [exists |-> TRUE, data |-> Prefix(n)]
            /\ \/ phase' = "done" /\ result' = "true"
               \/ phase' = "failed" /\ result' = "false"
    /\ UNCHANGED << variant, aside, output_before, config, res_len, server, progress_lock, pool_width, start_time, merge_copied,
                    supports_ranges, probed_size, file_size, total_size,
                    optimal_chunks, chunk_size, futures, chunk_files, temp_dir,
                    total_downloaded, increments, failed_chunks, collected, merge_i,
                    merge_calls >>

----------------------------------------------------------------------------
(* One transfer, from the probe on *)

\* DOWNLOAD_CONFIG of the enhanced downloader; the other two take only
\* max_threads and chunk_size and have the rest fixed in their code; of the
\* enhanced configurations, those whose threads and retries together stay
\* within MaxThreadsAndRetries
Configs(v) ==
    { c \in [ max_threads          : 0 .. MaxThreads,
              chunk_size           : 1 .. MaxChunkSize,
              small_file_threshold : IF v = "enhanced" THEN {0, SmallThreshold}
                                     ELSE {ThresholdOf(v, [small_file_threshold |-> 0])},
              max_retries          : IF v = "enhanced" THEN 0 .. MaxRetries
                                     ELSE {MaxRetriesOf(v, [max_retries |-> 0])} ] :
        v = "enhanced" => c.max_threads + c.max_retries <= MaxThreadsAndRetries }

Init ==
    /\ variant \in Variants
    /\ config \in Configs(variant)
    /\ \/ res_len \in 0 .. MaxFileSize
       \/ /\ res_len = TolerantSize
          /\ variant = "enhanced"
          /\ config.max_threads = 1
          /\ config.chunk_size = 1
          /\ config.max_retries = 0
    /\ server = Unscripted
    /\ supports_ranges = "unknown"
    /\ probed_size = -1
    /\ phase = "probe"
    /\ file_size = 0
    /\ total_size = 0
    /\ optimal_chunks = 0
    /\ chunk_size = 0
    /\ futures = << >>
    /\ chunk_files = EmptyFiles
    /\ temp_dir = FALSE
    /\ output_file = NoOutput
    /\ output_before = output_file
    /\ AsideInit
    /\ total_downloaded = 0
    /\ progress_lock = 0
    /\ increments = 0
    /\ pool_width = 0
    /\ start_time = "none"
    /\ merge_copied = FALSE
    /\ failed_chunks = << >>
    /\ collected = {}
    /\ merge_i = 0
    /\ merge_calls = 0
    /\ fallback_calls = 0
    /\ result = "none"

Next ==
    \/ TestRangeSupport
    \/ GetFileSize
    \/ PlanChunks
    \/ Submit
    \/ \E k \in DOMAIN futures : Worker(k)
    \/ \E k \in DOMAIN futures : Collect(k)
    \/ Decide
    \/ MergeStep
    \/ MergeFinish
    \/ MergeError
    \/ FallbackDownload

Spec == Init /\ [][Next]_vars

----------------------------------------------------------------------------
(* One transfer under fair scheduling: download_video keeps running, every *)
(* thread of the executor is scheduled, and every request returns or fails *)
(* within its timeout.                                                     *)

\* the steps of download_video's own thread
Orchestrator ==
    \/ TestRangeSupport
    \/ GetFileSize
    \/ PlanChunks
    \/ Submit
    \/ \E k \in DOMAIN futures : Collect(k)
    \/ Decide
    \/ MergeStep
    \/ MergeFinish
    \/ MergeError
    \/ FallbackDownload

\* the steps of the thread that runs the k-th submitted call
WorkerThread(k) == k \in DOMAIN futures /\ Worker(k)

LiveSpec ==
    /\ Init
    /\ [][Next]_vars
    /\ WF_vars(Orchestrator)
    /\ \A k \in 1 .. MaxThreads : WF_vars(WorkerThread(k))

----------------------------------------------------------------------------
(* One transfer with the loop body of merge_chunks taken in two steps *)

(* A transfer run by a downloader instance that may have run one before:  *)
(* the attributes hold what the earlier transfer left, and the output path *)
(* may hold a file already.                                                *)

\* the file an earlier run left at the output path
OldOutput == [exists |-> TRUE, data |-> Prefix(EarlierSize)]

ReuseInit ==
    /\ variant \in Variants
    /\ config \in Configs(variant)
    /\ res_len \in 0 .. MaxReuseSize
    /\ server = Unscripted
    /\ supports_ranges = "unknown"
    /\ probed_size = -1
    /\ phase = "probe"
    /\ file_size = 0
    /\ \/ total_size = 0 /\ total_downloaded = 0 /\ start_time = "none"
       \/ /\ total_size = EarlierSize
          /\ total_downloaded = EarlierSize
          /\ start_time = "stale"
    /\ optimal_chunks = 0
    /\ chunk_size = 0
    /\ futures = << >>
    /\ chunk_files = EmptyFiles
    /\ temp_dir = FALSE
    /\ output_file \in {NoOutput, OldOutput}
    /\ output_before = output_file
    /\ AsideInit
    /\ progress_lock = 0
    /\ increments = 0
    /\ pool_width = 0
    /\ merge_copied = FALSE
    /\ failed_chunks = << >>
    /\ collected = {}
    /\ merge_i = 0
    /\ merge_calls = 0
    /\ fallback_calls = 0
    /\ result = "none"

ReuseSpec == ReuseInit /\ [][Next]_vars

MergeNext ==
    \/ TestRangeSupport
    \/ GetFileSize
    \/ PlanChunks
    \/ Submit
    \/ \E k \in DOMAIN futures : Worker(k)
    \/ \E k \in DOMAIN futures : Collect(k)
    \/ Decide
    \/ MergeCopy
    \/ MergeRemove
    \/ MergeFinish
    \/ MergeError
    \/ FallbackDownload

MergeSpec == Init /\ [][MergeNext]_vars

----------------------------------------------------------------------------
(* One chunk worker alone: the state download_video is in after it has     *)
(* submitted the single chunk of a file below the small-file threshold,    *)
(* followed by that worker's steps.                                        *)

WorkerSizes == (1 .. MaxWorkerSize) \cup {TolerantSize}

WorkerConfigs(v) ==
    [ max_threads          : {8},
      chunk_size           : {2},
      small_file_threshold : {10485760},
      max_retries          : IF v = "enhanced" THEN 0 .. MaxWorkerRetries
                             ELSE {MaxRetriesOf(v, [max_retries |-> 0])} ]

WorkerInit ==
    /\ variant \in {"enhanced", "basic"}
    /\ config \in WorkerConfigs(variant)
    /\ file_size \in WorkerSizes
    /\ res_len = file_size
    /\ server = Unscripted
    /\ supports_ranges = "yes"
    /\ probed_size = file_size
    /\ total_size = file_size
    /\ phase = "collecting"
    /\ optimal_chunks = 1
    /\ chunk_size = file_size
    /\ futures = << NewCall(0, file_size, 1, file_size) >>
    /\ chunk_files = EmptyFiles
    /\ temp_dir = TRUE
    /\ output_file = NoOutput
    /\ output_before = output_file
    /\ AsideInit
    /\ total_downloaded = 0
    /\ progress_lock = 0
    /\ increments = 0
    /\ pool_width = 1
    /\ start_time = "fresh"
    /\ merge_copied = FALSE
    /\ failed_chunks = << >>
    /\ collected = {}
    /\ merge_i = 0
    /\ merge_calls = 0
    /\ fallback_calls = 0
    /\ result = "none"

WorkerNext == \E k \in DOMAIN futures : Worker(k)

WorkerSpec == WorkerInit /\ [][WorkerNext]_vars

----------------------------------------------------------------------------
(* The planner alone: the state after size discovery, for a wide range of  *)
(* sizes and configurations, followed by the planning step and the range   *)
(* loop.                                                                   *)

PlanSizes == (1 .. MaxPlanSize) \cup {10485760}

PlanChunkSizes == (1 .. MaxPlanChunkSize) \cup {1048576}

PlanThresholds == (0 .. MaxPlanThreshold) \cup {10485760}

PlanConfigs(v) ==
    [ max_threads          : -1 .. MaxPlanThreads,
      chunk_size           : PlanChunkSizes,
      small_file_threshold : IF v = "enhanced" THEN PlanThresholds
                             ELSE {ThresholdOf(v, [small_file_threshold |-> 0])},
      max_retries          : {3} ]

PlanInit ==
    /\ variant \in Variants
    /\ config \in PlanConfigs(variant)
    /\ file_size \in PlanSizes
    /\ res_len = file_size
    /\ server = Unscripted
    /\ supports_ranges = "yes"
    /\ probed_size = file_size
    /\ total_size = file_size
    /\ phase = "plan"
    /\ optimal_chunks = 0
    /\ chunk_size = 0
    /\ futures = << >>
    /\ chunk_files = EmptyFiles
    /\ temp_dir = FALSE
    /\ output_file = NoOutput
    /\ output_before = output_file
    /\ AsideInit
    /\ total_downloaded = 0
    /\ progress_lock = 0
    /\ increments = 0
    /\ pool_width = 0
    /\ start_time = "none"
    /\ merge_copied = FALSE
    /\ failed_chunks = << >>
    /\ collected = {}
    /\ merge_i = 0
    /\ merge_calls = 0
    /\ fallback_calls = 0
    /\ result = "none"

PlanNext == PlanChunks \/ Submit

PlanSpec == PlanInit /\ [][PlanNext]_vars

----------------------------------------------------------------------------
(* The progress counter: the workers of one transfer of the enhanced       *)
(* downloader with the loop body of download_chunk taken statement by      *)
(* statement, so that the increments of different threads interleave.      *)

ProgressInit ==
    /\ variant = "enhanced"
    /\ config \in [ max_threads          : 1 .. MaxProgressWorkers,
                     chunk_size           : {1},
                     small_file_threshold : {0},
                     max_retries          : 0 .. MaxProgressRetries ]
    /\ file_size \in 1 .. MaxProgressSize
    /\ res_len = file_size
    /\ server = Unscripted
    /\ supports_ranges = "yes"
    /\ probed_size = file_size
    /\ total_size = file_size
    /\ phase = "plan"
    /\ optimal_chunks = 0
    /\ chunk_size = 0
    /\ futures = << >>
    /\ chunk_files = EmptyFiles
    /\ temp_dir = FALSE
    /\ output_file = NoOutput
    /\ output_before = output_file
    /\ AsideInit
    /\ total_downloaded = 0
    /\ progress_lock = 0
    /\ increments = 0
    /\ pool_width = 0
    /\ start_time = "none"
    /\ merge_copied = FALSE
    /\ failed_chunks = << >>
    /\ collected = {}
    /\ merge_i = 0
    /\ merge_calls = 0
    /\ fallback_calls = 0
    /\ result = "none"

ProgressWorker(k) ==
    \/ Request(k)
    \/ WriteBlock(k)
    \/ AcquireLock(k)
    \/ LoadCounter(k)
    \/ StoreCounter(k)
    \/ PrintProgress(k)
    \/ ReleaseLock(k)
    \/ StreamEnd(k)
    \/ StreamError(k)
    \/ Retry(k)

ProgressNext ==
    \/ PlanChunks
    \/ Submit
    \/ \E k \in DOMAIN futures : ProgressWorker(k)

ProgressSpec == ProgressInit /\ [][ProgressNext]_vars

----------------------------------------------------------------------------
(* The probes alone: test_range_support and the size discovery against a   *)
(* server whose answer to every probing request is fixed.                  *)

ProbeInit ==
    /\ variant \in Variants
    /\ config = [max_threads |-> 1, chunk_size |-> 1,
                 small_file_threshold |-> ThresholdOf(variant, [small_file_threshold |-> 0]),
                 max_retries |-> MaxRetriesOf(variant, [max_retries |-> 0])]
    /\ res_len \in 1 .. MaxProbeSize
    /\ server \in Scripted
    /\ supports_ranges = "unknown"
    /\ probed_size = -1
    /\ phase = "probe"
    /\ file_size = 0
    /\ total_size = 0
    /\ optimal_chunks = 0
    /\ chunk_size = 0
    /\ futures = << >>
    /\ chunk_files = EmptyFiles
    /\ temp_dir = FALSE
    /\ output_file = NoOutput
    /\ output_before = output_file
    /\ AsideInit
    /\ total_downloaded = 0
    /\ progress_lock = 0
    /\ increments = 0
    /\ pool_width = 0
    /\ start_time = "none"
    /\ merge_copied = FALSE
    /\ failed_chunks = << >>
    /\ collected = {}
    /\ merge_i = 0
    /\ merge_calls = 0
    /\ fallback_calls = 0
    /\ result = "none"

ProbeNext == TestRangeSupport \/ GetFileSize

ProbeSpec == ProbeInit /\ [][ProbeNext]_vars

----------------------------------------------------------------------------
(* ProgressAggregator: update_progress.  A float is a fraction num/den     *)
(* with den > 0; `raised` marks the ZeroDivisionError of a division.       *)

\* the variables of one transfer
transfer_vars ==
    << variant, output_before, config, res_len, server, supports_ranges,
       probed_size, phase, file_size, total_size, optimal_chunks, chunk_size,
       futures, chunk_files, temp_dir, output_file, total_downloaded,
       progress_lock, increments, pool_width, start_time, merge_copied,
       failed_chunks, collected, merge_i, merge_calls, fallback_calls, result >>

Float(n) == [num |-> n, den |-> 1, raised |-> FALSE]

ZeroDivisionError == [num |-> 0, den |-> 1, raised |-> TRUE]

\* x / y in Python
TrueDiv(x, y) ==
    IF x.raised \/ y.raised \/ y.num = 0 THEN ZeroDivisionError
    ELSE IF y.num > 0
         THEN [num |-> x.num * y.den, den |-> x.den * y.num, raised |-> FALSE]
         ELSE [num |-> (0 - x.num) * y.den, den |-> x.den * (0 - y.num), raised |-> FALSE]

\* a speed computed whatever the elapsed time is
ElapsedPositive_NoTest(elapsed) == TRUE

\* `if elapsed_time > 0:`
ElapsedPositive(elapsed) == elapsed > 0

\* update_progress of the three downloaders, called `elapsed` seconds after
\* start_time: what it computes and whether it prints the status line.  The
\* demo prints no ETA; only the enhanced downloader has `verbose`.
update_progress(v, pcfg, downloaded, total, elapsed) ==
    LET quiet    == [called |-> TRUE, shown |-> FALSE, raised |-> FALSE,
                     elapsed |-> elapsed, progress |-> Float(0),
                     speed |-> Float(0), eta_known |-> FALSE, eta |-> Float(0)]
        progress == TrueDiv(Float(downloaded * 100), Float(total))
        speed    == TrueDiv(Float(downloaded), Float(elapsed))
        has_eta  == v # "demo" /\ ~ speed.raised /\ speed.num > 0
        eta      == IF has_eta THEN TrueDiv(Float(total - downloaded), speed)
                    ELSE Float(0)
        failed   == progress.raised \/ speed.raised \/ eta.raised
    IN IF v = "enhanced" /\ ~ pcfg.verbose THEN quiet
       ELSE IF ~ (total > 0) THEN quiet
       ELSE IF ~ ElapsedPositive(elapsed) THEN [quiet EXCEPT !.progress = progress]
       ELSE [called |-> TRUE, shown |-> ~ failed, raised |-> failed,
             elapsed |-> elapsed, progress |-> progress, speed |-> speed,
             eta_known |-> has_eta, eta |-> eta]

\* one call of update_progress, at any time on the clock (time.time() may
\* not have advanced since start_time, or may have been set back)
UpdateProgress ==
    /\ ~ display.called
    /\ \E elapsed \in -1 .. MaxElapsed :
         display' = update_progress(variant, progress_config, total_downloaded,
                                    total_size, elapsed)
    /\ UNCHANGED << transfer_vars, progress_config, now, transfers, disk >>

\* the progress states: any counter and any total, the counter above the
\* total included (C32)
RateInit ==
    /\ variant \in Variants
    /\ config = [max_threads |-> 1, chunk_size |-> 1,
                 small_file_threshold |-> ThresholdOf(variant, [small_file_threshold |-> 0]),
                 max_retries |-> MaxRetriesOf(variant, [max_retries |-> 0])]
    /\ res_len \in 0 .. MaxRateTotal
    /\ server = Unscripted
    /\ supports_ranges = "yes"
    /\ probed_size = res_len
    /\ phase = "collecting"
    /\ file_size = res_len
    /\ total_size = res_len
    /\ optimal_chunks = 1
    /\ chunk_size = res_len
    /\ futures = << >>
    /\ chunk_files = EmptyFiles
    /\ temp_dir = TRUE
    /\ output_file = NoOutput
    /\ output_before = output_file
    /\ total_downloaded \in 0 .. MaxRateDownloaded
    /\ progress_lock = 0
    /\ increments = total_downloaded
    /\ pool_width = 1
    /\ start_time = "fresh"
    /\ merge_copied = FALSE
    /\ failed_chunks = << >>
    /\ collected = {}
    /\ merge_i = 0
    /\ merge_calls = 0
    /\ fallback_calls = 0
    /\ result = "none"
    /\ progress_config \in [verbose : BOOLEAN]
    /\ display = NoStatus
    /\ now = 0
    /\ transfers = << >>
    /\ disk = << >>

RateSpec == RateInit /\ [][UpdateProgress]_vars

----------------------------------------------------------------------------
(* Two calls of download_video that run at the same time into one output   *)
(* directory (two instances, or two processes).  Each follows the steps of *)
(* download_video that touch the temporary directory; a directory is named *)
(* by the number after temp_dir_prefix.                                    *)

Transfers == {1, 2}

NotStarted == [pc |-> "idle", temp_dir |-> -1, merge_i |-> 0]

\* os.makedirs(temp_dir, exist_ok=True)
MakeDirs(d, name) ==
    [n \in DOMAIN d \cup {name} |-> IF n \in DOMAIN d THEN d[n] ELSE EmptyFiles]

\* os.rmdir, and the os.remove of every entry before it where there is one
RemoveDir(d, name) == [n \in DOMAIN d \ {name} |-> d[n]]

\* a second of the clock passes
Tick ==
    /\ now < MaxNow
    /\ now' = now + 1
    /\ UNCHANGED << transfer_vars, progress_config, display, transfers, disk >>

\* timestamp = int(time.time()); temp_dir = prefix + timestamp; makedirs
StartTransfer(t) ==
    /\ transfers[t].pc = "idle"
    /\ transfers' = [transfers EXCEPT ![t] = [@ EXCEPT !.pc = "workers", !.temp_dir = now]]
    /\ disk' = MakeDirs(disk, now)
    /\ UNCHANGED << transfer_vars, progress_config, display, now >>

\* a worker of transfer t opens temp_dir/chunk_<i>.tmp with 'wb' and writes
WriteArtifact(t, i) ==
    /\ transfers[t].pc = "workers"
    /\ transfers[t].temp_dir \in DOMAIN disk
    /\ disk' = [disk EXCEPT ![transfers[t].temp_dir] = WriteFile(@, i, t)]
    /\ UNCHANGED << transfer_vars, progress_config, display, now, transfers >>

\* the executor block is left: on to merge_chunks, or to the cleanup when
\* a chunk failed
WorkersDone(t) ==
    /\ transfers[t].pc = "workers"
    /\ \E next \in {"merge", "cleanup"} :
         transfers' = [transfers EXCEPT ![t] = [@ EXCEPT !.pc = next]]
    /\ UNCHANGED << transfer_vars, progress_config, display, now, disk >>

\* one iteration of the merge loop: an existing artifact is read and removed
MergeArtifact(t) ==
    /\ transfers[t].pc = "merge"
    /\ transfers[t].merge_i < PairChunks
    /\ LET dir == transfers[t].temp_dir
           i   == transfers[t].merge_i IN
       disk' = IF dir \in DOMAIN disk /\ i \in DOMAIN disk[dir]
               THEN [disk EXCEPT ![dir] = RemoveFile(@, i)]
               ELSE disk
    /\ transfers' = [transfers EXCEPT ![t] = [@ EXCEPT !.merge_i = @ + 1]]
    /\ UNCHANGED << transfer_vars, progress_config, display, now >>

\* after the loop: os.rmdir(temp_dir), which fails silently on a directory
\* that is not empty
MergeDone(t) ==
    /\ transfers[t].pc = "merge"
    /\ transfers[t].merge_i = PairChunks
    /\ LET dir == transfers[t].temp_dir IN
       disk' = IF dir \in DOMAIN disk /\ DOMAIN disk[dir] = {}
               THEN RemoveDir(disk, dir)
               ELSE disk
    /\ transfers' = [transfers EXCEPT ![t] = [@ EXCEPT !.pc = "returned"]]
    /\ UNCHANGED << transfer_vars, progress_config, display, now >>

\* cleanup_failed_download: every entry of the directory, then the directory
Cleanup(t) ==
    /\ transfers[t].pc = "cleanup"
    /\ disk' = RemoveDir(disk, transfers[t].temp_dir)
    /\ transfers' = [transfers EXCEPT ![t] = [@ EXCEPT !.pc = "returned"]]
    /\ UNCHANGED << transfer_vars, progress_config, display, now >>

PairInit ==
    /\ variant = "enhanced"
    /\ config = [max_threads |-> PairChunks, chunk_size |-> 1,
                 small_file_threshold |-> 0, max_retries |-> 0]
    /\ res_len = PairChunks
    /\ server = Unscripted
    /\ supports_ranges = "unknown"
    /\ probed_size = -1
    /\ phase = "probe"
    /\ file_size = 0
    /\ total_size = 0
    /\ optimal_chunks = 0
    /\ chunk_size = 0
    /\ futures = << >>
    /\ chunk_files = EmptyFiles
    /\ temp_dir = FALSE
    /\ output_file = NoOutput
    /\ output_before = output_file
    /\ total_downloaded = 0
    /\ progress_lock = 0
    /\ increments = 0
    /\ pool_width = 0
    /\ start_time = "none"
    /\ merge_copied = FALSE
    /\ failed_chunks = << >>
    /\ collected = {}
    /\ merge_i = 0
    /\ merge_calls = 0
    /\ fallback_calls = 0
    /\ result = "none"
    /\ progress_config = [verbose |-> TRUE]
    /\ display = NoStatus
    /\ now = 0
    /\ transfers = [t \in Transfers |-> NotStarted]
    /\ disk = << >>

PairNext ==
    \/ Tick
    \/ \E t \in Transfers : StartTransfer(t)
    \/ \E t \in Transfers, i \in 0 .. (PairChunks - 1) : WriteArtifact(t, i)
    \/ \E t \in Transfers : WorkersDone(t)
    \/ \E t \in Transfers : MergeArtifact(t)
    \/ \E t \in Transfers : MergeDone(t)
    \/ \E t \in Transfers : Cleanup(t)

PairSpec == PairInit /\ [][PairNext]_vars

----------------------------------------------------------------------------
(* Properties *)

Terminal == phase \in {"done", "failed", "raised"}

Clamp(x, lo, hi) == IF x < lo THEN lo ELSE IF x > hi THEN hi ELSE x

Expected(w) == w.end - w.start + 1

\* the submitted ranges are contiguous from 0 and each is non-empty
Contiguous ==
    \A k \in DOMAIN futures :
        /\ futures[k].start <= futures[k].end
        /\ futures[k].start = IF k = 1 THEN 0 ELSE futures[k - 1].end + 1

(* C1: for totalSize >= smallFileThreshold and every maxThreads and        *)
(* preferredChunkBytes, the enhanced downloader's plan has between 1 and   *)
(* 16 chunks, and once the range loop has run the chunks are contiguous,   *)
(* non-overlapping, non-empty, start at 0 and end at totalSize - 1.        *)
C1_PlanCoversFile ==
    (variant = "enhanced" /\ file_size >= config.small_file_threshold /\ phase # "plan")
    => /\ optimal_chunks \in 1 .. HardCapChunks
       /\ phase = "collecting"
          => /\ Len(futures) = optimal_chunks
             /\ Contiguous
             /\ futures[Len(futures)].end = file_size - 1

(* C2: for totalSize >= smallFileThresholdBytes the chunk count of         *)
(* calculate_optimal_chunks is clamp(min(maxThreads, floor(totalSize /     *)
(* preferredChunkBytes)), 1, 16), for every maxThreads, also below 1.      *)
C2_CountIsClamp ==
    (variant = "enhanced" /\ file_size >= config.small_file_threshold /\ phase # "plan")
    => optimal_chunks =
         Clamp(Min2(config.max_threads, file_size \div config.chunk_size), 1, HardCapChunks)

C4_ChunkGeometry ==
    /\ \A k \in DOMAIN futures :
         LET i    == k - 1
             base == file_size \div optimal_chunks
             w    == futures[k]
         IN /\ w.chunk_id = i
            /\ w.start = i * base
            /\ IF i < optimal_chunks - 1
               THEN w.end = (i + 1) * base - 1 /\ Expected(w) = base
               ELSE Expected(w) = base + (file_size % optimal_chunks)
    /\ (/\ variant = "enhanced"
        /\ phase = "collecting"
        /\ file_size = 10485760
        /\ config.max_threads = 4
        /\ config.chunk_size = 1048576
        /\ config.small_file_threshold = 10485760)
       => /\ Len(futures) = 4
          /\ \A k \in 1 .. 4 : Expected(futures[k]) = 2621440
          /\ futures[4].end = 10485759

C4_Witness ==
    /\ phase = "collecting"
    /\ optimal_chunks = 3
    /\ file_size = 32
    /\ Len(futures) = 3
    /\ Expected(futures[3]) = 12

\* a worker that used up its retry budget: the return of the except branch
TerminalFailure(w) == w.pc = "returned" /\ w.error # "None"

(* C5, as claimed: when size discovery returns 0 with ranges supported,    *)
(* the transfer plans zero chunks, spawns no worker and completes          *)
(* successfully with a zero-byte output file produced by the merge.        *)
C5_ZeroSizeMergesEmptyFile ==
    (/\ variant \in {"enhanced", "basic"}
     /\ supports_ranges = "yes"
     /\ probed_size = 0
     /\ file_size = 0
     /\ Terminal)
    => /\ futures = << >>
       /\ result = "true"
       /\ merge_calls = 1
       /\ output_file = [exists |-> TRUE, data |-> << >>]

(* C5, amended: when size discovery returns 0 with ranges supported (and   *)
(* the enhanced downloader got no estimated size to use instead), no chunk *)
(* is planned, no worker is spawned and merge_chunks is never called: the  *)
(* transfer is handed to fallback_download, called once, whose result is   *)
(* the transfer's result; a successful fallback of an empty resource       *)
(* leaves a zero-byte output file.                                         *)
C5_ZeroSizeFallsBack ==
    (/\ variant \in {"enhanced", "basic"}
     /\ supports_ranges = "yes"
     /\ probed_size = 0
     /\ file_size = 0)
    => /\ futures = << >>
       /\ optimal_chunks = 0
       /\ merge_calls = 0
       /\ phase \in {"fallback", "done", "failed"}
       /\ phase = "fallback" => fallback_calls = 0 /\ result = "none"
       /\ Terminal => fallback_calls = 1
       /\ (phase = "done" /\ res_len = 0)
          => output_file = [exists |-> TRUE, data |-> << >>]

C5_Witness ==
    /\ variant = "enhanced"
    /\ supports_ranges = "yes"
    /\ probed_size = 0
    /\ res_len = 0
    /\ phase = "done"
    /\ fallback_calls = 1
    /\ output_file = [exists |-> TRUE, data |-> << >>]

\* the artifacts from index i on, concatenated in ascending index order
RECURSIVE ConcatFrom(_, _, _)
ConcatFrom(files, i, n) ==
    IF i >= n THEN << >>
    ELSE (IF i \in DOMAIN files THEN files[i] ELSE << >>) \o ConcatFrom(files, i + 1, n)

\* what the output will hold when the merge loop is over
MergedAndPending == output_file.data \o ConcatFrom(chunk_files, merge_i, optimal_chunks)

\* every worker returned success with all the bytes of its range
AllChunksComplete ==
    \A k \in DOMAIN futures :
        /\ futures[k].pc = "returned"
        /\ futures[k].error = "None"
        /\ futures[k].downloaded = Expected(futures[k])

(* C6: for every chunk count and every completion order of the workers,    *)
(* merge_chunks writes the concatenation of artifact 0, 1, ..., N-1 in     *)
(* ascending index order (the merge starts from an empty output holding    *)
(* all artifacts pending, and no step changes output-plus-pending); when   *)
(* the artifacts are the pieces of the plan, the merged output is the      *)
(* original byte sequence.                                                 *)
C6_MergeIsOrderedConcat ==
    /\ [][ /\ (phase = "collected" /\ phase' = "merging")
              => MergedAndPending' = ConcatFrom(chunk_files, 0, optimal_chunks)
           /\ (phase = "merging" /\ phase' \in {"merging", "done"})
              => MergedAndPending' = MergedAndPending
           /\ (phase = "merging" /\ phase' = "done")
              => output_file'.data = MergedAndPending ]_vars
    /\ [](phase = "done" /\ merge_calls = 1 /\ AllChunksComplete
            => output_file.data = Prefix(file_size))

C6_Witness ==
    /\ phase = "done"
    /\ merge_calls = 1
    /\ optimal_chunks = 2
    /\ file_size = 3
    /\ AllChunksComplete
    /\ futures[1].attempts = 2
    /\ output_file.data = << 1, 2, 3 >>

(* C7: a range transfer of the enhanced downloader ends in Done only with  *)
(* a merged output of exactly the probed total size; in particular not     *)
(* when every chunk reported success and the merged size differs.          *)
C7_DoneOnlyWithFullSize ==
    (/\ variant = "enhanced"
     /\ phase = "done"
     /\ merge_calls = 1
     /\ \A k \in DOMAIN futures : futures[k].error = "None")
    => Len(output_file.data) = file_size

(* C8: if some chunk worker returned a terminal failure, merge_chunks is   *)
(* never called, the transfer does not end in Done, and neither a worker   *)
(* is spawned again nor the single-stream fallback started.                *)
C8_ChunkFailureFailsTransfer ==
    (\E k \in DOMAIN futures : TerminalFailure(futures[k]))
    => /\ merge_calls = 0
       /\ fallback_calls = 0
       /\ phase # "done"
       /\ Len(futures) <= optimal_chunks
       /\ Terminal => result = "false"

(* C9: download_chunk makes at most maxRetries + 1 attempts per chunk,     *)
(* retry_count running 0, 1, ..., maxRetries, and returns a terminal       *)
(* failure only after exactly maxRetries + 1 attempts (so with             *)
(* maxRetries = 3 a chunk is retried 3 times before it is reported failed).*)
C9_RetryBudget ==
    \A k \in DOMAIN futures :
        LET w == futures[k]
            budget == MaxRetriesOf(variant, config)
        IN /\ w.retry_count \in 0 .. budget
           /\ w.attempts <= budget + 1
           /\ w.attempts \in {w.retry_count, w.retry_count + 1}
           /\ w.pc \in {"stream", "backoff", "returned"} => w.attempts = w.retry_count + 1
           /\ TerminalFailure(w) => w.attempts = budget + 1 /\ w.retry_count = budget

C9_Witness ==
    /\ variant = "enhanced"
    /\ config.max_retries = 3
    /\ file_size = TolerantSize
    /\ TerminalFailure(futures[1])
    /\ futures[1].attempts = 4
    /\ futures[1].retry_count = 3
    /\ 0 \in DOMAIN chunk_files
    /\ Len(chunk_files[0]) = TolerantSize - 2

\* the range the plan assigned to the k-th submitted chunk
PlannedRange(k) ==
    << ChunkStart(k - 1, chunk_size),
       ChunkEnd(k - 1, chunk_size, optimal_chunks, file_size) >>

(* C10: every attempt for chunk i, the first and every retry, requests the *)
(* byte range [start_i, end_i] of the plan and writes the artifact chunk_i *)
(* of the plan: no retry changes start, end, chunk index or artifact.      *)
C10_RangeIdentity ==
    /\ \A k \in DOMAIN futures :
         LET w == futures[k] IN
         /\ w.chunk_id = k - 1
         /\ << w.start, w.end >> = PlannedRange(k)
         /\ w.attempts > 0 => w.req = PlannedRange(k)
    /\ Running =>
         \A i \in DOMAIN chunk_files :
             /\ i + 1 \in DOMAIN futures
             /\ futures[i + 1].attempts > 0
             /\ \A j \in DOMAIN chunk_files[i] :
                    chunk_files[i][j] = PlannedRange(i + 1)[1] + j

C10_Witness ==
    /\ Len(futures) = 2
    /\ futures[2].retry_count = 1
    /\ futures[2].attempts = 2
    /\ futures[2].pc = "stream"
    /\ futures[2].downloaded = 2
    /\ futures[2].req = << 1, 2 >>
    /\ chunk_files[1] = << 2, 3 >>

\* the attempt of call w ended its stream normally or with an error
AttemptEnded(w, w2) == w.pc = "stream" /\ w2.pc # "stream"

\* call w2 is the success return of download_chunk
ReturnedSuccess(w2) == w2.pc = "returned" /\ w2.error = "None"

\* what follows a failed attempt of call w: the backoff and the retry while
\* budget remains, the terminal failure otherwise
FailedAndRetried(w, w2) ==
    IF w.retry_count < MaxRetriesOf(variant, config)
    THEN w2.pc = "backoff" /\ w2.retry_count = w.retry_count
    ELSE TerminalFailure(w2)

(* C11, as claimed: in both downloaders an attempt whose stream ends with   *)
(* fewer bytes written than 95% of end - start + 1 is never returned as a   *)
(* success; it is a failure, retried while retry budget remains.            *)
C11_ShortfallBelow95NeverSuccess ==
    /\ [][ \A k \in DOMAIN futures :
             (/\ AttemptEnded(futures[k], futures'[k])
              /\ 100 * futures[k].downloaded < 95 * Expected(futures[k]))
             => /\ ~ ReturnedSuccess(futures'[k])
                /\ FailedAndRetried(futures[k], futures'[k]) ]_vars
    /\ [](\A k \in DOMAIN futures :
             ReturnedSuccess(futures[k])
             => 100 * futures[k].downloaded >= 95 * Expected(futures[k]))

(* C11, amended: an attempt whose stream ends with fewer bytes written than *)
(* the downloader's own tolerance fraction of end - start + 1 (95% in       *)
(* EnhancedChunkDownloader, 90% in ChunkDownloader) is never returned as a  *)
(* success; it is a failure, retried while retry budget remains, and the    *)
(* retry is a new call with retry_count + 1.                                *)
C11_ShortfallNeverSuccess ==
    /\ [][ \A k \in DOMAIN futures :
             LET w == futures[k]
                 short == IF variant = "enhanced"
                          THEN 100 * w.downloaded < 95 * Expected(w)
                          ELSE 10 * w.downloaded < 9 * Expected(w)
             IN /\ (AttemptEnded(w, futures'[k]) /\ short)
                   => /\ ~ ReturnedSuccess(futures'[k])
                      /\ FailedAndRetried(w, futures'[k])
                /\ (w.pc = "backoff" /\ futures'[k] # w)
                   => /\ futures'[k].pc = "start"
                      /\ futures'[k].retry_count = w.retry_count + 1 ]_vars
    /\ [](\A k \in DOMAIN futures :
             ReturnedSuccess(futures[k])
             => IF variant = "enhanced"
                THEN 100 * futures[k].downloaded >= 95 * Expected(futures[k])
                ELSE 10 * futures[k].downloaded >= 9 * Expected(futures[k]))

C11_Witness ==
    /\ variant = "basic"
    /\ file_size = TolerantSize
    /\ futures[1].retry_count = 1
    /\ futures[1].attempts = 2
    /\ futures[1].pc = "backoff"
    /\ 0 \in DOMAIN chunk_files
    /\ Len(chunk_files[0]) = TolerantSize - 3

(* C12: test_range_support returns true when the probe response has status *)
(* 206, returns true for status 200 exactly when the response carries the  *)
(* accept-ranges header, and returns false for every other status.         *)
C12_RangeProbeStatuses ==
    (server.fixed /\ supports_ranges # "unknown" /\ ~ server.response.raised)
    => LET r == server.response IN
       /\ r.status = 206 => supports_ranges = "yes"
       /\ r.status = 200 => (supports_ranges = "yes" <=> r.accept_ranges)
       /\ r.status \notin {200, 206} => supports_ranges = "no"

C12_Witness ==
    /\ server.fixed
    /\ variant = "enhanced"
    /\ server.response = [raised |-> FALSE, status |-> 200, accept_ranges |-> FALSE]
    /\ supports_ranges = "no"
    /\ phase = "fallback"

\* the transfer is on the single-stream path: nothing planned, no worker, no
\* merge, fallback_download called once when the transfer is over
SingleStreamPath ==
    /\ futures = << >>
    /\ optimal_chunks = 0
    /\ temp_dir = FALSE
    /\ merge_calls = 0
    /\ phase \in {"fallback", "done", "failed"}
    /\ Terminal => fallback_calls = 1

(* C13, as claimed: if the range probe reports unsupported, or none of the  *)
(* size-discovery requests yields a size, the transfer takes the            *)
(* single-stream path: fallback_download runs, no chunk plan is computed    *)
(* and no chunk worker is spawned.                                          *)
C13_NoSizeTakesFallback ==
    (/\ variant \in {"enhanced", "basic"}
     /\ supports_ranges = "no" \/ probed_size = 0)
    => SingleStreamPath

(* C13, amended: if the range probe reports unsupported, or none of the     *)
(* size-discovery requests yields a size and, in EnhancedChunkDownloader,   *)
(* video_info carries no filesize either, the transfer takes the            *)
(* single-stream path: fallback_download runs, no chunk plan is computed    *)
(* and no chunk worker is spawned.  With a filesize in video_info the       *)
(* enhanced downloader plans chunks from that size.                         *)
C13_NoSizeAtAllTakesFallback ==
    /\ (/\ variant \in {"enhanced", "basic"}
        /\ supports_ranges = "no" \/ (probed_size = 0 /\ file_size = 0))
       => SingleStreamPath
    /\ (variant = "basic" /\ probed_size = 0) => file_size = 0
    /\ (variant = "enhanced" /\ probed_size = 0 /\ file_size > 0)
       => phase \notin {"fallback"} /\ fallback_calls = 0

C13_Witness ==
    /\ variant = "basic"
    /\ supports_ranges = "no"
    /\ res_len = 2
    /\ phase = "done"
    /\ fallback_calls = 1
    /\ output_file = [exists |-> TRUE, data |-> << 1, 2 >>]

\* no worker is between taking and releasing progress_lock
NoIncrementUnderWay ==
    \A k \in DOMAIN futures : futures[k].pc \notin {"load", "store", "unlock"}

\* every worker has returned
AllReturned ==
    /\ Len(futures) = optimal_chunks
    /\ \A k \in DOMAIN futures : futures[k].pc = "returned"

(* C14: for every set of workers and every interleaving of their progress  *)
(* increments, total_downloaded equals the sum of all increments applied   *)
(* since the reset at the start of the transfer, whenever no increment is  *)
(* under way and in particular when all workers have returned: no          *)
(* increment is lost, whatever the order.                                  *)
C14_NoIncrementLost ==
    /\ (phase \in {"submitting", "collecting"} /\ NoIncrementUnderWay)
       => total_downloaded = increments
    /\ AllReturned => total_downloaded = increments

C14_Witness ==
    /\ AllReturned
    /\ Len(futures) = 2
    /\ file_size = 3
    /\ futures[1].attempts = 2
    /\ increments = 4
    /\ total_downloaded = 4

\* merge_chunks is at an index whose artifact does not exist
MergeAtMissingArtifact ==
    /\ phase = "merging"
    /\ merge_i < optimal_chunks
    /\ merge_i \notin DOMAIN chunk_files

(* C15: if during merge_chunks the artifact of some expected chunk index   *)
(* in 0..N-1 does not exist, the merge fails and the transfer does not end *)
(* in Done: from a merge that stands at a missing artifact the only step   *)
(* is the one to Failed.                                                   *)
C15_MissingArtifactFailsMerge ==
    [][ MergeAtMissingArtifact => (phase' = "failed" /\ result' = "false") ]_vars

(* C16: whenever a range transfer has reached a terminal state, Done or    *)
(* Failed for any reason (chunk failure, merge I/O failure, merge          *)
(* success), no chunk artifact and no temporary directory of that transfer *)
(* remains on disk; stated for the enhanced downloader and the transfers   *)
(* in which no error had an empty message.                                 *)
C16_NothingLeftOnDisk ==
    (/\ variant = "enhanced"
     /\ phase \in {"done", "failed"}
     /\ Len(futures) > 0
     /\ \A k \in DOMAIN futures : futures[k].error # "")
    => /\ DOMAIN chunk_files = {}
       /\ temp_dir = FALSE

(* C17: a terminal failure of one chunk never stops, cancels or shortens a *)
(* sibling worker: a step changes one call only, a returned call never     *)
(* changes, a call that has not returned stays schedulable whatever its    *)
(* siblings returned, and the orchestrator decides between merge and       *)
(* failure cleanup only after all chunkCount workers have returned.        *)
C17_NoCancellation ==
    /\ [][ \A j \in DOMAIN futures :
             /\ futures[j].pc = "returned" => futures'[j] = futures[j]
             /\ futures'[j] # futures[j]
                => \A k \in DOMAIN futures \ {j} : futures'[k] = futures[k] ]_vars
    /\ [](\A k \in DOMAIN futures : futures[k].pc # "returned" => Running)
    /\ []((phase \in {"collected", "merging", "done", "failed"} /\ futures # << >>)
            => /\ Len(futures) = optimal_chunks
               /\ collected = DOMAIN futures
               /\ \A k \in DOMAIN futures : futures[k].pc = "returned")

C17_Witness ==
    /\ phase = "collecting"
    /\ Len(futures) = 2
    /\ TerminalFailure(futures[1])
    /\ failed_chunks = << 0 >>
    /\ futures[2].retry_count = 1
    /\ futures[2].pc = "stream"
    /\ futures[2].downloaded = 1

\* a size request that was made ended in a network error, a timeout or a
\* header int() cannot parse
ErrorAtSizeRequest ==
    LET a   == server.answers
        bad == {"unparsable", "raised"}
    IN \/ a[1] \in bad
       \/ variant # "demo" /\ a[1] = "absent" /\ a[2] \in bad
       \/ variant # "demo" /\ a[1] = "absent" /\ a[2] = "absent" /\ a[3] \in bad

(* C18: test_range_support and get_accurate_file_size never raise to their *)
(* caller: for a network error or timeout of the range probe               *)
(* test_range_support returns false, and for a network error, timeout or   *)
(* unparsable header at any size request that is made                      *)
(* get_accurate_file_size returns 0; download_video goes on in both cases. *)
C18_ProbesNeverRaise ==
    server.fixed
    => /\ phase # "raised" /\ result # "raised"
       /\ (supports_ranges # "unknown" /\ server.response.raised)
          => /\ supports_ranges = "no"
             /\ phase = NoChunkingPhase(variant)
       /\ (probed_size # -1 /\ ErrorAtSizeRequest)
          => /\ probed_size = 0
             /\ phase \in {"plan", NoChunkingPhase(variant)}

C18_Witness ==
    /\ server.fixed
    /\ variant = "enhanced"
    /\ server.answers = << "absent", "unparsable", "value" >>
    /\ supports_ranges = "yes"
    /\ probed_size = 0
    /\ file_size = 0
    /\ phase = "fallback"

\* the chunk ids in failed_chunks
FailedIds == {failed_chunks[i] : i \in DOMAIN failed_chunks}

(* C19: the orchestrator records a chunk as failed if and only if that     *)
(* chunk's worker exhausted its retry budget, whatever the last error was, *)
(* an error with an empty message included; a chunk whose worker returned  *)
(* a terminal failure is never counted as a success and never leads to a   *)
(* merge.                                                                  *)
C19_FailedIffBudgetExhausted ==
    \A k \in collected :
        /\ futures[k].chunk_id \in FailedIds <=> TerminalFailure(futures[k])
        /\ TerminalFailure(futures[k]) => phase \notin {"merging", "done"}

\* the waits of call w are the first Len(w.waits) terms of min(2^k, 10)
ExponentialWaits(w) ==
    \A j \in DOMAIN w.waits : w.waits[j] = Min2(2 ^ (j - 1), 10)

\* one wait per failed attempt that was followed by a retry, none after the
\* last failed attempt
OneWaitPerRetry(w) ==
    /\ Len(w.waits) = IF w.pc = "backoff" THEN w.retry_count + 1 ELSE w.retry_count
    /\ TerminalFailure(w) => Len(w.waits) = w.attempts - 1
    /\ w.pc = "backoff" => w.wait_time = w.waits[Len(w.waits)]

(* C20, as claimed: in both downloaders download_chunk waits min(2^k, 10)  *)
(* seconds before retry number k+1 of a chunk, and no wait happens after   *)
(* the last failed attempt.                                                *)
C20_BackoffIsExponential ==
    \A k \in DOMAIN futures :
        ExponentialWaits(futures[k]) /\ OneWaitPerRetry(futures[k])

(* C20, amended: EnhancedChunkDownloader.download_chunk waits min(2^k, 10) *)
(* seconds before retry number k+1 of a chunk: the waits of one chunk are  *)
(* non-decreasing, double until the cap and never exceed 10 seconds.       *)
(* ChunkDownloader.download_chunk waits 1 second before every retry.  In   *)
(* both, no wait happens after the last failed attempt.                    *)
C20_BackoffPerDownloader ==
    \A k \in DOMAIN futures :
        LET w == futures[k] IN
        /\ OneWaitPerRetry(w)
        /\ variant = "basic" => \A j \in DOMAIN w.waits : w.waits[j] = 1
        /\ variant = "enhanced"
           => /\ ExponentialWaits(w)
              /\ \A j \in DOMAIN w.waits :
                    /\ w.waits[j] <= 10
                    /\ j > 1 => /\ w.waits[j] >= w.waits[j - 1]
                                /\ w.waits[j] < 10 => w.waits[j] = 2 * w.waits[j - 1]

C20_Witness ==
    /\ variant = "enhanced"
    /\ config.max_retries = 5
    /\ TerminalFailure(futures[1])
    /\ futures[1].attempts = 6
    /\ futures[1].waits = << 1, 2, 4, 8, 10 >>

\* the calls that are running on a thread of the executor
Threads == {j \in DOMAIN futures : OnThread(j)}

(* C21: in a range transfer exactly chunkCount workers are submitted, one  *)
(* for each chunk index 0..chunkCount-1 and none twice, to a pool whose    *)
(* width equals chunkCount, so no submitted worker waits for a pool slot   *)
(* and no two workers write the same chunk artifact.                       *)
C21_OneWorkerPerChunk ==
    (phase \in {"submitting", "collecting", "collected", "merging", "done", "failed"}
     /\ optimal_chunks > 0)
    => /\ pool_width = optimal_chunks
       /\ Len(futures) <= optimal_chunks
       /\ phase # "submitting" => Len(futures) = optimal_chunks
       /\ \A k \in DOMAIN futures : futures[k].chunk_id = k - 1
       /\ \A j \in DOMAIN futures, k \in DOMAIN futures :
             j # k => futures[j].chunk_id # futures[k].chunk_id
       /\ Cardinality(Threads) <= pool_width
       /\ \A k \in DOMAIN futures :
             (futures[k].pc # "returned" /\ k \notin Threads)
             => Cardinality(Threads) < pool_width

C21_Witness ==
    /\ phase = "collecting"
    /\ optimal_chunks = 2
    /\ pool_width = 2
    /\ Threads = {1, 2}
    /\ futures[1].pc = "stream"
    /\ futures[2].pc = "stream"
    /\ DOMAIN chunk_files = {0, 1}

\* the artifacts whose bytes are in the output already and that still exist
CopiedAndNotDeleted ==
    {i \in DOMAIN chunk_files : i < merge_i \/ (i = merge_i /\ merge_copied)}

(* C22: during merge_chunks the artifact of chunk i is deleted after its   *)
(* bytes were appended to the output and before the artifact of chunk i+1  *)
(* is read, so at any moment at most one already-copied artifact still     *)
(* exists; after the last artifact is consumed the temporary directory is  *)
(* removed.                                                                *)
C22_DeleteBeforeNextCopy ==
    /\ phase = "merging"
       => /\ Cardinality(CopiedAndNotDeleted) <= 1
          /\ \A i \in DOMAIN chunk_files : i >= merge_i
          /\ ~ merge_copied => CopiedAndNotDeleted = {}
    /\ (phase = "done" /\ merge_calls = 1)
       => /\ DOMAIN chunk_files = {}
          /\ temp_dir = FALSE

C22_Witness ==
    /\ phase = "merging"
    /\ optimal_chunks = 2
    /\ merge_i = 1
    /\ merge_copied
    /\ DOMAIN chunk_files = {1}
    /\ output_file.data = << 1, 2, 3 >>

\* the calls that are inside `with self.progress_lock:`
InsideLock == {k \in DOMAIN futures : futures[k].pc \in {"load", "store", "print", "unlock"}}

(* C23: while workers are running, every read-modify-write of              *)
(* total_downloaded is performed by a worker that holds progress_lock, and *)
(* at most one worker holds progress_lock at any time.                     *)
C23_CounterUpdatedUnderLock ==
    /\ [][ (Running /\ Running' /\ total_downloaded' # total_downloaded)
           => /\ progress_lock \in DOMAIN futures
              /\ futures[progress_lock].pc = "store"
              /\ futures'[progress_lock] # futures[progress_lock]
              /\ total_downloaded' = total_downloaded + futures[progress_lock].pending ]_vars
    /\ [](/\ Cardinality(InsideLock) <= 1
           /\ \A k \in InsideLock : progress_lock = k
           /\ InsideLock = {} => progress_lock = 0)

C23_Witness ==
    /\ Len(futures) = 2
    /\ progress_lock = 1
    /\ futures[1].pc = "store"
    /\ futures[1].seen = 1
    /\ futures[2].pc = "lock"
    /\ total_downloaded = 1

(* C24: a worker holds progress_lock only for the counter update itself:   *)
(* never during a network read, an artifact write, the console output of   *)
(* the progress line or the backoff sleep.                                 *)
C24_LockOnlyForCounterUpdate ==
    \A k \in DOMAIN futures :
        progress_lock = k => futures[k].pc \in {"load", "store", "unlock"}

\* the k-th submitted call has returned its result tuple
HasReturned(k) == k \in DOMAIN futures /\ futures[k].pc = "returned"

(* C25: assuming every HTTP request returns or fails within its timeout,   *)
(* every chunk worker eventually returns a result (success or terminal     *)
(* failure) without raising, and every transfer eventually reaches Done or *)
(* Failed.                                                                 *)
C25_EveryTransferEnds ==
    /\ \A k \in 1 .. MaxThreads :
          [](k \in DOMAIN futures => <>HasReturned(k))
    /\ <>(phase \in {"done", "failed"})

\* the same with the outcomes of download_video that are an exception
C25_EndsOrRaises ==
    /\ \A k \in 1 .. MaxThreads :
          [](k \in DOMAIN futures => <>HasReturned(k))
    /\ <>(phase \in {"done", "failed", "raised"})

(* C26: when a range transfer of EnhancedChunkDownloader (automatic        *)
(* cleanup enabled) or ChunkDownloader fails because some chunk was        *)
(* recorded as failed, the cleanup path has deleted every chunk artifact,  *)
(* those of the chunks that succeeded and the partial ones of the failed   *)
(* chunks, and has removed the temporary directory.                        *)
C26_FailureCleanupRemovesAll ==
    (/\ variant \in {"enhanced", "basic"}
     /\ phase = "failed"
     /\ failed_chunks # << >>)
    => /\ DOMAIN chunk_files = {}
       /\ temp_dir = FALSE
       /\ result = "false"

C26_Witness ==
    /\ variant = "enhanced"
    /\ phase = "failed"
    /\ failed_chunks = << 1 >>
    /\ ReturnedSuccess(futures[1])
    /\ futures[1].downloaded = 1
    /\ TerminalFailure(futures[2])
    /\ futures[2].attempts = 2
    /\ DOMAIN chunk_files = {}
    /\ temp_dir = FALSE

(* C27: when a range transfer ends in failure because a chunk was recorded *)
(* as failed, the output path holds exactly what it held before the        *)
(* transfer: the file is not created, truncated or written.                *)
C27_OutputUntouchedOnChunkFailure ==
    (phase = "failed" /\ failed_chunks # << >>) => output_file = output_before

C27_Witness ==
    /\ phase = "failed"
    /\ failed_chunks = << 1 >>
    /\ Len(futures) = 2
    /\ ReturnedSuccess(futures[1])
    /\ futures[1].downloaded = 1
    /\ TerminalFailure(futures[2])
    /\ output_before = OldOutput
    /\ output_file = OldOutput

(* C28: after fallback_download has written n bytes and returned True, the *)
(* shared counter total_downloaded equals n.                               *)
C28_FallbackCountsInSharedCounter ==
    (phase = "done" /\ fallback_calls = 1)
    => total_downloaded = Len(output_file.data)

\* the workers of a range transfer are being started or have been started
WorkersStarted == phase \in {"submitting", "collecting", "collected"}

(* C29: whatever an earlier transfer of the same instance left in the      *)
(* attributes, a range transfer starts its workers with total_downloaded   *)
(* = 0, a fresh start timestamp and total_size equal to its own size, and  *)
(* while its workers run total_downloaded counts only the bytes of this    *)
(* transfer.                                                               *)
C29_ProgressResetPerTransfer ==
    /\ (phase = "submitting" /\ futures = << >>) => total_downloaded = 0
    /\ WorkersStarted
       => /\ start_time = "fresh"
          /\ total_size = file_size
          /\ total_downloaded = increments

C29_Witness ==
    /\ phase = "collecting"
    /\ output_before = NoOutput
    /\ file_size = 2
    /\ total_size = 2
    /\ start_time = "fresh"
    /\ Len(futures) = 2
    /\ futures[1].pc = "returned"
    /\ futures[2].pc = "stream"
    /\ total_downloaded = 1

\* the size requests that are made: request i is made when every request
\* before it was answered without the header
Consulted == {i \in 1 .. 3 : \A j \in 1 .. (i - 1) : server.answers[j] = "absent"}

\* the last request that is made
LastConsulted == CHOOSE i \in Consulted : \A j \in Consulted : j <= i

(* C30, as claimed: get_accurate_file_size returns the value of the first  *)
(* of the three sources that yields one, going on to a later source        *)
(* whenever the earlier ones yielded no value, and returns 0 only when     *)
(* none of the three yields a value.                                       *)
C30_FirstSourceWithValue ==
    (server.fixed /\ variant # "demo" /\ probed_size # -1)
    => probed_size = IF \E i \in 1 .. 3 : server.answers[i] = "value"
                     THEN res_len ELSE 0

(* C30, amended: the three sources are tried in order, a later one only    *)
(* when every earlier one answered without its header; the result is the   *)
(* value of the last source tried when it has one, and 0 when it has no    *)
(* header, an unparsable header or ended in a network error -- an error at *)
(* a source ends the discovery even when a later source has the value.     *)
C30_SizeSourcesInOrder ==
    (server.fixed /\ variant # "demo" /\ probed_size # -1)
    => probed_size = IF server.answers[LastConsulted] = "value"
                     THEN res_len ELSE 0

C30_Witness ==
    /\ server.fixed
    /\ variant = "enhanced"
    /\ server.answers = << "absent", "absent", "value" >>
    /\ res_len = 2
    /\ probed_size = 2
    /\ phase = "plan"

\* the bytes call w received in its current attempt, in the order received
ReceivedInAttempt(w) == [j \in 1 .. w.downloaded |-> w.start + j]

(* C34: whenever download_chunk has returned success for chunk i, the      *)
(* artifact of chunk i holds exactly the bytes received in the final,      *)
(* successful attempt, nothing of an earlier failed attempt, and its       *)
(* length is the bytes-written value of the returned result.               *)
C34_ArtifactIsFinalAttempt ==
    \A k \in DOMAIN futures :
        (ReturnedSuccess(futures[k]) /\ phase \in {"submitting", "collecting", "collected"})
        => /\ futures[k].chunk_id \in DOMAIN chunk_files
           /\ chunk_files[futures[k].chunk_id] = ReceivedInAttempt(futures[k])
           /\ Len(chunk_files[futures[k].chunk_id]) = futures[k].downloaded

C34_Witness ==
    /\ Len(futures) = 1
    /\ ReturnedSuccess(futures[1])
    /\ futures[1].attempts = 3
    /\ futures[1].downloaded = 2
    /\ chunk_files[0] = << 1, 2 >>

(* C32: at every moment of a range transfer, after any number of chunk     *)
(* retries too, total_downloaded is at most total_size: the reported       *)
(* progress never exceeds 100%.                                            *)
C32_ProgressAtMostTotal ==
    (WorkersStarted \/ phase = "merging") => total_downloaded <= total_size

(* C31: update_progress computes rate = total_downloaded / seconds elapsed *)
(* since start_time, the cumulative rate, and (where an ETA is printed)    *)
(* ETA = (total_size - total_downloaded) / rate when rate > 0, unknown     *)
(* otherwise; in every progress state, elapsed = 0, downloaded = 0,        *)
(* total = 0 and downloaded > total included, the call ends without a      *)
(* division by zero.                                                       *)
C31_RateAndEtaNeverFail ==
    display.called
    => /\ ~ display.raised
       /\ display.shown
          => /\ display.speed.num * display.elapsed
                  = total_downloaded * display.speed.den
             /\ variant # "demo"
                => IF total_downloaded > 0
                   THEN /\ display.eta_known
                        /\ display.eta.num * total_downloaded
                            = (total_size - total_downloaded) * display.elapsed
                              * display.eta.den
                   ELSE ~ display.eta_known

C31_Witness ==
    /\ variant = "enhanced"
    /\ display.called
    /\ display.shown
    /\ display.elapsed = 2
    /\ total_size = 2
    /\ total_downloaded = 3
    /\ display.eta_known
    /\ display.eta.num < 0

\* download_video of transfer t is between its makedirs and its return
Active(t) == transfers[t].pc \in {"workers", "merge", "cleanup"}

(* C33: two transfers that run at the same time into the same output       *)
(* directory never have the same temporary directory, and the temporary    *)
(* directory of one never holds an artifact written by a worker of the     *)
(* other (which its merge would read and delete, or its cleanup delete).   *)
C33_TransfersShareNothing ==
    \A t \in DOMAIN transfers, u \in DOMAIN transfers :
        (t # u /\ Active(t) /\ Active(u))
        => /\ transfers[t].temp_dir # transfers[u].temp_dir
           /\ transfers[t].temp_dir \in DOMAIN disk
              => \A i \in DOMAIN disk[transfers[t].temp_dir] :
                     disk[transfers[t].temp_dir][i] # u

====
